---- MODULE Spec2Model ----
(***************************************************************************)
(* A model of server.js, the daily quiz server: the in-memory pool         *)
(* MASTER_QUIZ_DATA, its refresh from the generative-text API              *)
(* (fetchNewQuizData, started by the listen callback and by setInterval),  *)
(* and the two request handlers GET /api/quiz and GET /api/answer-key      *)
(* with the pure helpers they call (getDailySeed, shuffleArray,            *)
(* assignQuizIds, getKRandomQuestions, sanitizeQuizData).                  *)
(*                                                                         *)
(* JSON values are tagged records: [t |-> "number", v |-> n],              *)
(* [t |-> "string", v |-> code], [t |-> "array", items |-> seq],           *)
(* [t |-> "null"], [t |-> "object", fields |-> f].  A question object is a *)
(* function from the names of its own properties to JSON values.          *)
(***************************************************************************)
EXTENDS Integers, Sequences, FiniteSets, TLC

(***************************************************************************)
(* Bounds of the model.                                                    *)
(***************************************************************************)
\* length of the longest array the API returns (longer than K)
MaxLen == 6
\* number of refresh runs that may be started (startup run included)
MaxRuns == 3
\* the clock runs over the instants 0..MaxClock, half a day apart
MaxClock == 2

(***************************************************************************)
(* Program constants.                                                      *)
(***************************************************************************)
\* const K = 5 in both handlers
K == 5

Num(n) == [t |-> "number", v |-> n]
Str(c) == [t |-> "string", v |-> c]
Arr(s) == [t |-> "array", items |-> s]
Null == [t |-> "null"]
Obj(f) == [t |-> "object", fields |-> f]

Min(a, b) == IF a < b THEN a ELSE b

\* typeof x === 'number'
TypeofDefined(x) == x.t # "undefined"
TypeofNumber(x) == x.t = "number"

(***************************************************************************)
(* The data the API may return.  A Good array is shaped as the prompt of   *)
(* server.js asks, with the index under correctAnswerIndex; its second     *)
(* record already carries an id.  A Mixed array holds in turn a record     *)
(* that names the index correctChoiceIndex, one without an index, one      *)
(* whose index is a string, one with two choices and an index out of       *)
(* range, a null, and a well-formed record.  The text of a record tells    *)
(* the array and the position it comes from.                               *)
(***************************************************************************)
TextCode(b, n, i) == b * 100 + n * 10 + i

Choices(k) == Arr([c \in 1..k |-> Str(c)])

With(q, f, v) == [g \in DOMAIN q \cup {f} |-> IF g = f THEN v ELSE q[g]]

Base(b, n, i) ==
  [text |-> Str(TextCode(b, n, i)), choices |-> Choices(3), explanation |-> Str(0)]

WellFormed(b, n, i) == With(Base(b, n, i), "correctAnswerIndex", Num(i % 3))

GoodItem(n, i) ==
  IF i = 2 THEN Obj(With(WellFormed(1, n, i), "id", Num(99)))
  ELSE Obj(WellFormed(1, n, i))

MixedItem(n, i) ==
  CASE i % 6 = 1 -> Obj(With(Base(2, n, i), "correctChoiceIndex", Num(i % 3)))
    [] i % 6 = 2 -> Obj(Base(2, n, i))
    [] i % 6 = 3 -> Obj(With(Base(2, n, i), "correctAnswerIndex", Str(1)))
    [] i % 6 = 4 -> Obj(With(With(Base(2, n, i), "choices", Choices(2)),
                             "correctAnswerIndex", Num(7)))
    [] i % 6 = 5 -> Null
    [] OTHER -> Obj(WellFormed(2, n, i))

Good(n) == [i \in 1..n |-> GoodItem(n, i)]
Mixed(n) == [i \in 1..n |-> MixedItem(n, i)]

Payloads == { Good(2), Good(MaxLen), Mixed(MaxLen) }

(***************************************************************************)
(* Date: the clock counts half days since 2023-12-31T00:00Z, so that the   *)
(* instants 0 and 1 are the same UTC date at different times of day and    *)
(* the step from 1 to 2 changes year, month and day.                       *)
(***************************************************************************)
DayNumber(now) == now \div 2
getUTCFullYear(now) == IF DayNumber(now) = 0 THEN 2023 ELSE 2024
\* zero-based, as in JavaScript
getUTCMonth(now) == IF DayNumber(now) = 0 THEN 11 ELSE 0
getUTCDate(now) == IF DayNumber(now) = 0 THEN 31 ELSE DayNumber(now)
getUTCHours(now) == (now % 2) * 12

SameUTCDate(a, b) ==
  /\ getUTCFullYear(a) = getUTCFullYear(b)
  /\ getUTCMonth(a) = getUTCMonth(b)
  /\ getUTCDate(a) = getUTCDate(b)

(***************************************************************************)
(* Strings of digits are sequences of digits.                              *)
(***************************************************************************)
RECURSIVE String(_)
String(n) == IF n < 10 THEN <<n>> ELSE String(n \div 10) \o <<n % 10>>

RECURSIVE padStart(_, _, _)
padStart(s, len, fill) == IF Len(s) >= len THEN s ELSE padStart(<<fill>> \o s, len, fill)

\* the date of a clock twelve hours ahead of UTC, as the local getters give it
getDailySeedLocalTime(now) ==
  LET ahead == now + 1
  IN String(getUTCFullYear(ahead)) \o padStart(String(getUTCMonth(ahead) + 1), 2, 0)
       \o padStart(String(getUTCDate(ahead)), 2, 0)
getDailySeed(now) ==
  LET year == getUTCFullYear(now)
      month == padStart(String(getUTCMonth(now) + 1), 2, 0)
      day == padStart(String(getUTCDate(now)), 2, 0)
  IN String(year) \o month \o day

(***************************************************************************)
(* seedrandom is a library outside the repository: a generator that is a   *)
(* pure function of the seed string, whose draws lie in [0, 1).  It is     *)
(* represented by a congruential generator whose n-th draw is the fraction *)
(* seedrandom(seed, n) / 1009.                                             *)
(***************************************************************************)
RECURSIVE SeedState(_, _)
SeedState(seed, h) ==
  IF seed = <<>> THEN h ELSE SeedState(Tail(seed), (h * 31 + Head(seed) + 1) % 1009)

RECURSIVE seedrandom(_, _)
seedrandom(seed, n) ==
  IF n = 0 THEN SeedState(seed, 7) ELSE (seedrandom(seed, n - 1) * 75 + 74) % 1009

\* Math.floor(rng() * m) for the n-th draw
FloorRngTimes(seed, n, m) == (seedrandom(seed, n) * m) \div 1009

\* [array[i], array[j]] = [array[j], array[i]], on zero-based indexes
SwapBroken(array, i, j) == [array EXCEPT ![i + 1] = array[j + 1]]
Swap(array, i, j) == [array EXCEPT ![i + 1] = array[j + 1], ![j + 1] = array[i + 1]]

RECURSIVE shuffleLoop(_, _, _, _)
shuffleLoop(array, seed, i, n) ==
  IF ~(i > 0) THEN array
  ELSE LET j == FloorRngTimes(seed, n, i + 1)
       IN shuffleLoop(Swap(array, i, j), seed, i - 1, n + 1)

shuffleArray(array, seed) == shuffleLoop(array, seed, Len(array) - 1, 1)

\* the own enumerable properties {...q} copies: those of an object, none of
\* null or of a number
Spread(q) == IF q.t = "object" THEN q.fields ELSE <<>>

assignQuizIdsForeignWins(quizData) ==
  [i \in 1..Len(quizData) |->
     LET own == Spread(quizData[i])
     IN [f \in DOMAIN own \cup {"id"} |->
           IF f \in DOMAIN own THEN own[f] ELSE Num((i - 1) + 1)]]
assignQuizIds(quizData) ==
  [i \in 1..Len(quizData) |->
     LET own == Spread(quizData[i])
     IN [f \in DOMAIN own \cup {"id"} |->
           IF f = "id" THEN Num((i - 1) + 1) ELSE own[f]]]

\* [...masterData]: a new array with the same elements
SpreadCopyAliased(masterData) == [elems |-> masterData, aliased |-> TRUE]
SpreadCopy(masterData) == [elems |-> masterData, aliased |-> FALSE]

\* ret is the value returned, master the array passed in as the call leaves it
getKRandomQuestions(k, masterData, now) ==
  LET seed == getDailySeed(now)
      dataCopy == SpreadCopy(masterData)
      count == Min(k, Len(dataCopy.elems))
      shuffledCopy == shuffleArray(dataCopy.elems, seed)
  IN [ret |-> SubSeq(shuffledCopy, 1, count),
      master |-> IF dataCopy.aliased THEN shuffledCopy ELSE masterData]

sanitizeNothing(questions) == questions
sanitizeKeepsIdAndText(questions) ==
  [i \in 1..Len(questions) |->
     LET q == questions[i]
     IN [f \in DOMAIN q \cap {"id", "text"} |-> q[f]]]
sanitizeQuizData(questions) ==
  [i \in 1..Len(questions) |->
     LET q == questions[i]
     IN [f \in DOMAIN q \ {"correctAnswerIndex"} |-> q[f]]]

\* q.f, undefined when q has no such property
Prop(q, f) == IF f \in DOMAIN q THEN q[f] ELSE [t |-> "undefined"]

PutAlone(acc, key, value) == [k \in {key} |-> value]

\* acc[key] = value
Put(acc, key, value) ==
  [k \in DOMAIN acc \cup {key} |-> IF k = key THEN value ELSE acc[k]]

RECURSIVE reduceAnswerKey(_, _, _)
reduceAnswerKey(questions, i, acc) ==
  IF i > Len(questions) THEN acc
  ELSE LET q == questions[i]
           next == IF TypeofNumber(Prop(q, "id")) /\ TypeofNumber(Prop(q, "correctAnswerIndex"))
                   THEN Put(acc, String(q.id.v), q.correctAnswerIndex)
                   ELSE acc
       IN reduceAnswerKey(questions, i + 1, next)

(***************************************************************************)
(* What axios.post may yield: a rejection (without or with a response), or *)
(* a response whose data has no candidates, an empty list of candidates, a *)
(* candidate without content, or a candidate with a text.  A text is a     *)
(* sequence of tokens: a Markdown fence, white space, a JSON value, or     *)
(* anything else.                                                          *)
(***************************************************************************)
FenceJson == [k |-> "fence-json"]
Fence == [k |-> "fence"]
Ws == [k |-> "ws"]
Junk == [k |-> "junk"]
Json(v) == [k |-> "json", val |-> v]

JsonValues ==
  { Arr(p) : p \in Payloads } \cup { Arr(<<>>), Obj([questions |-> Arr(<<>>)]), Null, Num(42) }

Texts ==
  { <<Json(v)>> : v \in JsonValues }
    \cup { <<FenceJson, Ws, Json(v), Ws, Fence>> : v \in JsonValues }
    \cup { <<>>, <<Junk>>, <<Junk, Json(Arr(Good(2)))>> }

Rejected(hasResponse) == [kind |-> "rejected", hasResponse |-> hasResponse]
Response(hasCandidates, candidates) ==
  [kind |-> "response", hasCandidates |-> hasCandidates, candidates |-> candidates]
Candidate(hasContent, text) == [hasContent |-> hasContent, text |-> text]

ApiResults ==
  { Rejected(h) : h \in BOOLEAN }
    \cup { Response(FALSE, <<>>), Response(TRUE, <<>>),
           Response(TRUE, <<Candidate(FALSE, <<>>)>>) }
    \cup { Response(TRUE, <<Candidate(TRUE, t)>>) : t \in Texts }

\* quizJsonText.replace: every Markdown fence, with or without json, is removed
StripFences(text) == SelectSeq(text, LAMBDA tok : tok.k \notin {"fence-json", "fence"})

RECURSIVE trimStart(_)
trimStart(text) ==
  IF text # <<>> /\ Head(text).k = "ws" THEN trimStart(Tail(text)) ELSE text

RECURSIVE trimEnd(_)
trimEnd(text) ==
  IF text # <<>> /\ text[Len(text)].k = "ws"
  THEN trimEnd(SubSeq(text, 1, Len(text) - 1)) ELSE text

trim(text) == trimEnd(trimStart(text))

\* JSON.parse: the value, or a SyntaxError
JSONparse(text) ==
  IF Len(text) = 1 /\ text[1].k = "json"
  THEN [threw |-> FALSE, value |-> text[1].val]
  ELSE [threw |-> TRUE, value |-> Null]

\* Array.isArray(newQuizData) && newQuizData.length > 0
AcceptsLoose(newQuizData) == newQuizData.t = "array"
AcceptsObjectsOnly(newQuizData) ==
  /\ newQuizData.t = "array"
  /\ Len(newQuizData.items) > 0
  /\ \A i \in 1..Len(newQuizData.items) : newQuizData.items[i].t = "object"
Accepts(newQuizData) == newQuizData.t = "array" /\ Len(newQuizData.items) > 0

(***************************************************************************)
(* The try block of fetchNewQuizData from the arrival of the API result:   *)
(* threw tells whether it threw, pool is MASTER_QUIZ_DATA as it leaves it, *)
(* data the array it accepted.                                             *)
(***************************************************************************)
TryBlockKeepsFilledPool(result, pool) ==
  LET failed == [threw |-> TRUE, pool |-> pool, data |-> <<>>]
      usable == /\ result.kind = "response"
                /\ result.hasCandidates
                /\ Len(result.candidates) > 0
                /\ result.candidates[1].hasContent
      parsed == JSONparse(trim(StripFences(result.candidates[1].text)))
  IN IF pool = <<>> /\ usable /\ ~parsed.threw /\ Accepts(parsed.value)
     THEN [threw |-> FALSE, pool |-> assignQuizIds(parsed.value.items),
           data |-> parsed.value.items]
     ELSE failed
TryBlock(result, pool) ==
  LET failed == [threw |-> TRUE, pool |-> pool, data |-> <<>>]
  IN IF result.kind = "rejected" THEN failed
     ELSE IF ~(result.hasCandidates /\ Len(result.candidates) > 0) THEN failed
     ELSE IF ~result.candidates[1].hasContent THEN failed
     ELSE LET quizJsonText == result.candidates[1].text
              cleanedJsonText == trim(StripFences(quizJsonText))
              parsed == JSONparse(cleanedJsonText)
          IN IF parsed.threw THEN failed
             ELSE IF Accepts(parsed.value)
                  THEN [threw |-> FALSE, pool |-> assignQuizIds(parsed.value.items),
                        data |-> parsed.value.items]
                  ELSE failed

\* catch (error) { ... } takes every error of the try block and only logs
CatchesOnlyResponses(result) == result.kind = "rejected" /\ result.hasResponse
Catches(result) == TRUE

VARIABLES
  MASTER_QUIZ_DATA,  \* the pool
  clock,             \* the current instant
  alive,             \* the process has not died of an uncaught error
  listenPc,          \* the listen callback: "init", "awaiting", "armed"
  started,           \* the number of refresh runs started
  pending,           \* the runs awaiting axios.post
  poolRun,           \* the run whose data the pool holds, 0 when none
  accepted,          \* the array that run accepted
  handler,           \* the request handler on the stack, if any
  resp,              \* the last response sent
  overtaken,         \* history: a run has replaced the data of a run started after it
  faulted,           \* history: a handler has caught an exception
  seen               \* history: the quiz a client has received and kept

vars == <<MASTER_QUIZ_DATA, clock, alive, listenPc, started, pending, poolRun,
          accepted, handler, resp, overtaken, faulted, seen>>

refreshVars == <<listenPc, started, pending, poolRun, accepted, overtaken>>

\* what only the handlers' catch blocks and the client change
history == <<faulted, seen>>

Idle == [ep |-> "idle"]
NoResponse ==
  [ep |-> "none", status |-> 0, body |-> <<>>, tested |-> <<>>, used |-> <<>>,
   ids |-> <<>>, at |-> 0, populated |-> FALSE]

Init ==
  /\ MASTER_QUIZ_DATA = <<>>
  /\ clock = 0
  /\ alive = TRUE
  /\ listenPc = "init"
  /\ started = 0
  /\ pending = {}
  /\ poolRun = 0
  /\ accepted = <<>>
  /\ handler = Idle
  /\ resp = NoResponse
  /\ overtaken = FALSE
  /\ faulted = FALSE
  /\ seen = NoResponse

\* handlers are synchronous: no other callback runs while one is on the stack
EventLoopFreeAlways == alive
EventLoopFree == alive /\ handler.ep = "idle"

\* time passes
ClockAdvance ==
  /\ clock < MaxClock
  /\ clock' = clock + 1
  /\ UNCHANGED <<MASTER_QUIZ_DATA, alive, refreshVars, handler, resp, history>>

\* a call of fetchNewQuizData up to its await
StartRun ==
  /\ started' = started + 1
  /\ pending' = pending \cup {started + 1}

\* the callback of app.listen up to its await
ListenCallback ==
  /\ EventLoopFree
  /\ listenPc = "init"
  /\ StartRun
  /\ listenPc' = "awaiting"
  /\ UNCHANGED <<MASTER_QUIZ_DATA, clock, alive, poolRun, accepted, overtaken,
                 handler, resp, history>>

\* setInterval(fetchNewQuizData, TWO_HOUR) fires
IntervalTick ==
  /\ EventLoopFree
  /\ listenPc = "armed"
  /\ started < MaxRuns
  /\ StartRun
  /\ UNCHANGED <<MASTER_QUIZ_DATA, clock, alive, listenPc, poolRun, accepted,
                 overtaken, handler, resp, history>>

\* axios.post settles for run r: the rest of fetchNewQuizData, and for the
\* startup run the rest of the listen callback
FetchComplete(r, result) ==
  /\ EventLoopFree
  /\ r \in pending
  /\ LET out == TryBlock(result, MASTER_QUIZ_DATA)
         caught == out.threw => Catches(result)
     IN /\ MASTER_QUIZ_DATA' = out.pool
        /\ alive' = caught
        /\ poolRun' = IF out.threw THEN poolRun ELSE r
        /\ accepted' = IF out.threw THEN accepted ELSE out.data
        /\ listenPc' = IF listenPc = "awaiting" /\ caught THEN "armed" ELSE listenPc
        /\ overtaken' = (overtaken \/ (~out.threw /\ poolRun > r))
  /\ pending' = pending \ {r}
  /\ UNCHANGED <<clock, started, handler, resp, history>>


\* MASTER_QUIZ_DATA.length === 0, in each handler
QuizUnavailable(pool) == Len(pool) = 0
AnswerKeyUnavailableNever(pool) == FALSE
AnswerKeyUnavailable(pool) == Len(pool) = 0

Send(r) == resp' = r

\* res.status(status).json(body), with what the handler read on its way:
\* tested is the pool its first statement tested, used the pool it passed to
\* the selection, ids the ids of the selection in its order, at the instant of
\* the selection, populated whether a refresh had succeeded when the request
\* arrived
Reply(ep, status, body, tested, used, ids, populated) ==
  [ep |-> ep, status |-> status, body |-> body, tested |-> tested, used |-> used,
   ids |-> ids, at |-> clock, populated |-> populated]

Ids(questions) == [i \in 1..Len(questions) |-> questions[i].id.v]

\* GET /api/quiz arrives: the test of the pool
QuizCheck ==
  /\ EventLoopFree
  /\ IF QuizUnavailable(MASTER_QUIZ_DATA)
     THEN /\ Send(Reply("quiz", 503, [errorCode |-> "DATA_UNAVAILABLE"],
                        MASTER_QUIZ_DATA, <<>>, <<>>, poolRun # 0))
          /\ UNCHANGED handler
     ELSE /\ handler' = [ep |-> "quiz", tested |-> MASTER_QUIZ_DATA,
                         populated |-> poolRun # 0]
          /\ UNCHANGED resp
  /\ UNCHANGED <<MASTER_QUIZ_DATA, clock, alive, refreshVars, history>>

\* GET /api/quiz: the try block
QuizRespond ==
  /\ alive
  /\ handler.ep = "quiz"
  /\ LET call == getKRandomQuestions(K, MASTER_QUIZ_DATA, clock)
         todaysQuestions == call.ret
         safePayload == sanitizeQuizData(todaysQuestions)
     IN /\ MASTER_QUIZ_DATA' = call.master
        /\ Send(Reply("quiz", 200, safePayload, handler.tested, MASTER_QUIZ_DATA,
                      Ids(todaysQuestions), handler.populated))
  /\ handler' = Idle
  /\ UNCHANGED <<clock, alive, refreshVars, history>>

\* GET /api/answer-key arrives: the test of the pool
AnswerKeyCheck ==
  /\ EventLoopFree
  /\ IF AnswerKeyUnavailable(MASTER_QUIZ_DATA)
     THEN /\ Send(Reply("answer-key", 503, [error |-> "Data unavailable"],
                        MASTER_QUIZ_DATA, <<>>, <<>>, poolRun # 0))
          /\ UNCHANGED handler
     ELSE /\ handler' = [ep |-> "answer-key", tested |-> MASTER_QUIZ_DATA,
                         populated |-> poolRun # 0]
          /\ UNCHANGED resp
  /\ UNCHANGED <<MASTER_QUIZ_DATA, clock, alive, refreshVars, history>>

\* GET /api/answer-key: the try block
AnswerKeyRespond ==
  /\ alive
  /\ handler.ep = "answer-key"
  /\ LET call == getKRandomQuestions(K, MASTER_QUIZ_DATA, clock)
         todaysQuestions == call.ret
         answerKey == reduceAnswerKey(todaysQuestions, 1, <<>>)
     IN /\ MASTER_QUIZ_DATA' = call.master
        /\ Send(Reply("answer-key", 200, answerKey, handler.tested, MASTER_QUIZ_DATA,
                      Ids(todaysQuestions), handler.populated))
  /\ handler' = Idle
  /\ UNCHANGED <<clock, alive, refreshVars, history>>

(***************************************************************************)
(* Exceptions in the handlers.  No statement of the two try blocks throws  *)
(* on a pool that a refresh published, so Spec has no step to a catch      *)
(* block; SpecFault adds the steps in which the try block raises an error  *)
(* at one of its calls.                                                    *)
(***************************************************************************)
Errors ==
  { [name |-> "TypeError", message |-> "Cannot read properties of undefined"],
    [name |-> "RangeError", message |-> "Invalid array length"] }

\* the body each catch block sends, whatever the error
QuizCatchLeaks(error) == [errorCode |-> "SERVER_ERROR", message |-> error.message]
QuizCatch(error) ==
  [errorCode |-> "SERVER_ERROR",
   message |-> "Internal server error occurred during data retrieval."]
AnswerKeyCatch(error) == [error |-> "Internal server error"]

\* the pool as the try block leaves it when the call named by point throws:
\* the selection has then returned, unless it is the call that threw
PoolAtThrow(point) ==
  IF point = "selection" THEN MASTER_QUIZ_DATA
  ELSE getKRandomQuestions(K, MASTER_QUIZ_DATA, clock).master

\* GET /api/quiz: the try block throws at point, and the catch block
QuizThrows(error, point) ==
  /\ alive
  /\ handler.ep = "quiz"
  /\ MASTER_QUIZ_DATA' = PoolAtThrow(point)
  /\ Send(Reply("quiz", 500, QuizCatch(error), handler.tested, MASTER_QUIZ_DATA,
                <<>>, handler.populated))
  /\ handler' = Idle
  /\ faulted' = TRUE
  /\ UNCHANGED <<clock, alive, refreshVars, seen>>

\* GET /api/answer-key: the try block throws at point, and the catch block
AnswerKeyThrows(error, point) ==
  /\ alive
  /\ handler.ep = "answer-key"
  /\ MASTER_QUIZ_DATA' = PoolAtThrow(point)
  /\ Send(Reply("answer-key", 500, AnswerKeyCatch(error), handler.tested,
                MASTER_QUIZ_DATA, <<>>, handler.populated))
  /\ handler' = Idle
  /\ faulted' = TRUE
  /\ UNCHANGED <<clock, alive, refreshVars, seen>>

Next ==
  \/ ClockAdvance
  \/ ListenCallback
  \/ IntervalTick
  \/ \E r \in pending, result \in ApiResults : FetchComplete(r, result)
  \/ QuizCheck
  \/ QuizRespond
  \/ AnswerKeyCheck
  \/ AnswerKeyRespond

Spec == Init /\ [][Next]_vars

NextFault ==
  \/ Next
  \/ \E error \in Errors, point \in {"selection", "redaction"} : QuizThrows(error, point)
  \/ \E error \in Errors, point \in {"selection", "construction"} :
       AnswerKeyThrows(error, point)

SpecFault == Init /\ [][NextFault]_vars

(***************************************************************************)
(* A client of the two endpoints: it keeps the questions of a 200 response *)
(* of GET /api/quiz, to check its answers against the answer key it asks   *)
(* for afterwards.                                                         *)
(***************************************************************************)
ClientKeepsQuiz ==
  /\ resp.ep = "quiz"
  /\ resp.status = 200
  /\ seen # resp
  /\ seen' = resp
  /\ UNCHANGED <<MASTER_QUIZ_DATA, clock, alive, refreshVars, handler, resp, faulted>>

NextClient ==
  \/ Next
  \/ ClientKeepsQuiz

SpecClient == Init /\ [][NextClient]_vars
(***************************************************************************)
(* The claims.                                                             *)
(***************************************************************************)

\* the API result is one a refresh can use: a response with a candidate
\* whose text, fences and surrounding white space aside, is a JSON array that
\* is not empty
UsableResult(result) ==
  /\ result.kind = "response"
  /\ result.hasCandidates
  /\ result.candidates # <<>>
  /\ result.candidates[1].hasContent
  /\ LET parsed == JSONparse(trim(StripFences(result.candidates[1].text)))
     IN /\ ~parsed.threw
        /\ parsed.value.t = "array"
        /\ parsed.value.items # <<>>

\* C1: a refresh run that fails (network error, no candidates, a text that is
\* not JSON, a value that is not an array or is an empty array) leaves the pool
\* equal to its value before the run, and the process keeps running.
C1_FailedRefreshKeepsPool ==
  [][\A r \in pending, result \in ApiResults :
       (~UsableResult(result) /\ FetchComplete(r, result))
         => (MASTER_QUIZ_DATA' = MASTER_QUIZ_DATA /\ alive')]_vars

\* the second run has failed after the first one filled the pool
C1_Witness ==
  /\ started = 2
  /\ pending = {}
  /\ poolRun = 1
  /\ MASTER_QUIZ_DATA # <<>>
  /\ alive
Range(s) == { s[i] : i \in 1..Len(s) }

\* C2: a 200 response of either endpoint is computed from one pool snapshot:
\* the pool tested for emptiness is the pool passed to the selection, and every
\* record or entry of the response comes from that pool.
C2_OneSnapshot ==
  resp.status = 200 =>
    /\ resp.tested = resp.used
    /\ resp.ep = "quiz" =>
         \A i \in 1..Len(resp.body) :
           \E q \in Range(resp.used) : resp.body[i] = sanitizeQuizData(<<q>>)[1]
    /\ resp.ep = "answer-key" =>
         \A key \in DOMAIN resp.body :
           \E q \in Range(resp.used) :
             /\ key = String(q.id.v)
             /\ resp.body[key] = Prop(q, "correctAnswerIndex")

\* a response computed from a pool that a refresh has since replaced, with
\* another run still in flight
C2_Witness ==
  /\ resp.status = 200
  /\ resp.used # MASTER_QUIZ_DATA
  /\ pending # {}

\* C3 as stated: no 200 response of GET /api/quiz holds the correct-choice
\* field, under the name correctAnswerIndex or correctChoiceIndex.
C3_NoCorrectChoiceUnderEitherName ==
  (resp.ep = "quiz" /\ resp.status = 200) =>
    \A i \in 1..Len(resp.body) :
      DOMAIN resp.body[i] \cap {"correctAnswerIndex", "correctChoiceIndex"} = {}

\* C3: no 200 response of GET /api/quiz holds a field named
\* correctAnswerIndex, the name under which the code reads the correct choice.
C3_NoCorrectAnswerIndex ==
  (resp.ep = "quiz" /\ resp.status = 200) =>
    \A i \in 1..Len(resp.body) : "correctAnswerIndex" \notin DOMAIN resp.body[i]

\* a quiz response over a pool whose records all carry correctAnswerIndex
C3_Witness ==
  /\ resp.ep = "quiz"
  /\ resp.status = 200
  /\ resp.body # <<>>
  /\ \A q \in Range(resp.used) : "correctAnswerIndex" \in DOMAIN q

\* C4: both endpoints answer 503 exactly when the pool is empty at the time of
\* the request, and so every request made before the first successful refresh.
C4_UnavailableIffEmpty ==
  resp.ep # "none" =>
    /\ resp.status = 503 <=> resp.tested = <<>>
    /\ ~resp.populated => resp.status = 503

\* the answer key is refused while the startup run is still in flight
C4_Witness ==
  /\ resp.ep = "answer-key"
  /\ resp.status = 503
  /\ ~resp.populated
  /\ pending = {1}
\* C5: the selection over a pool is the same at every instant of one UTC date,
\* for either endpoint: the ids the handler selected, in their order, are the
\* ids of a selection from the same pool at any instant of that date, and the
\* seed of the two instants is the same.
C5_SameDateSameSelection ==
  resp.status = 200 =>
    \A t \in 0..MaxClock :
      SameUTCDate(t, resp.at) =>
        /\ getDailySeed(t) = getDailySeed(resp.at)
        /\ Ids(getKRandomQuestions(K, resp.used, t).ret) = resp.ids

\* a selection that is not in pool order, made at another time of the current
\* UTC date
C5_Witness ==
  /\ resp.status = 200
  /\ resp.at # clock
  /\ SameUTCDate(resp.at, clock)
  /\ \E i \in 1..Len(resp.ids) : resp.ids[i] # i

\* the daily selection of a pool at an instant
DailySelection(pool, at) == getKRandomQuestions(K, pool, at).ret

\* C6 as stated: the keys of a 200 answer key are exactly the ids of the daily
\* selection, each mapped to the correct-choice index of the pool record with
\* that id.
C6_KeysAreAllSelectedIds ==
  (resp.ep = "answer-key" /\ resp.status = 200) =>
    LET selection == DailySelection(resp.used, resp.at)
    IN /\ DOMAIN resp.body = { String(q.id.v) : q \in Range(selection) }
       /\ \A q \in Range(selection) :
            resp.body[String(q.id.v)] = Prop(resp.used[q.id.v], "correctAnswerIndex")

\* C6: the keys of a 200 answer key are exactly the ids of the records of the
\* daily selection whose correctAnswerIndex is a number, each mapped to the
\* correctAnswerIndex of the pool record with that id; the other selected
\* records have no entry.
C6_KeysAreSelectedIdsWithNumericIndex ==
  (resp.ep = "answer-key" /\ resp.status = 200) =>
    LET selection == DailySelection(resp.used, resp.at)
        keyed == { q \in Range(selection) :
                     /\ "correctAnswerIndex" \in DOMAIN q
                     /\ q.correctAnswerIndex.t = "number" }
    IN /\ DOMAIN resp.body = { String(q.id.v) : q \in keyed }
       /\ \A q \in keyed :
            resp.body[String(q.id.v)] = resp.used[q.id.v].correctAnswerIndex

\* an answer key over a selection with and without numeric indexes
C6_Witness ==
  /\ resp.ep = "answer-key"
  /\ resp.status = 200
  /\ DOMAIN resp.body # {}
  /\ Cardinality(DOMAIN resp.body) < Len(resp.ids)

\* C7: for every K the selection has min(K, |P|) elements, each a record of
\* the pool P, none twice, and the shuffle yields a permutation of the pool.
C7_SelectionShape ==
  LET P == MASTER_QUIZ_DATA
      shuffled == shuffleArray(P, getDailySeed(clock))
  IN /\ Len(shuffled) = Len(P)
     /\ \A q \in Range(P) : Cardinality({ i \in 1..Len(shuffled) : shuffled[i] = q }) = 1
     /\ \A k \in 0..(MaxLen + 1) :
          LET selection == getKRandomQuestions(k, P, clock).ret
          IN /\ Len(selection) = Min(k, Len(P))
             /\ \A i \in 1..Len(selection) : selection[i] \in Range(P)
             /\ \A i, j \in 1..Len(selection) : i # j => selection[i] # selection[j]
     /\ resp.status = 200 => Len(resp.ids) = Min(K, Len(resp.used))

\* a pool smaller than K, served whole, and not in pool order
C7_Witness ==
  /\ MASTER_QUIZ_DATA # <<>>
  /\ Len(MASTER_QUIZ_DATA) < K
  /\ resp.status = 200
  /\ resp.used = MASTER_QUIZ_DATA
  /\ Len(resp.ids) = Len(MASTER_QUIZ_DATA)
  /\ resp.ids[1] # 1
\* the ids of the pool are 1..n in pool order, and the pool holds the accepted
\* array in its arrival order: record i is item i with its id set to i
IdsInArrivalOrder ==
  /\ Len(MASTER_QUIZ_DATA) = Len(accepted)
  /\ \A i \in 1..Len(MASTER_QUIZ_DATA) :
       LET q == MASTER_QUIZ_DATA[i]
           own == Spread(accepted[i])
       IN /\ "id" \in DOMAIN q
          /\ q.id = Num(i)
          /\ DOMAIN q = DOMAIN own \cup {"id"}
          /\ \A f \in DOMAIN own \ {"id"} : q[f] = own[f]

\* C8: in every state the ids of the pool are exactly 1..n, unique and in the
\* arrival order of the fetched data, also when a fetched record carries an
\* id; and a refresh that changes the pool leaves no record of the previous
\* pool in it.
C8_IdsAndWholesaleReplacement ==
  /\ []IdsInArrivalOrder
  /\ [][MASTER_QUIZ_DATA' # MASTER_QUIZ_DATA =>
          Range(MASTER_QUIZ_DATA') \cap Range(MASTER_QUIZ_DATA) = {}]_vars

\* the second run has replaced a pool that served a response, and the record
\* fetched with an id of its own has the id of its position
C8_Witness ==
  /\ poolRun = 2
  /\ resp.status = 200
  /\ resp.used # MASTER_QUIZ_DATA
  /\ Len(accepted) >= 2
  /\ "id" \in DOMAIN Spread(accepted[2])
  /\ accepted[2].fields.id # Num(2)
  /\ MASTER_QUIZ_DATA[2].id = Num(2)

HandlerStep == QuizCheck \/ QuizRespond \/ AnswerKeyCheck \/ AnswerKeyRespond

\* C9: a step of a request handler leaves the pool as it was, records, ids and
\* order; the pool changes only when a refresh run succeeds.
C9_RequestsKeepPool ==
  [][/\ HandlerStep => MASTER_QUIZ_DATA' = MASTER_QUIZ_DATA
     /\ MASTER_QUIZ_DATA' # MASTER_QUIZ_DATA => poolRun' # poolRun]_vars

\* a response whose selection is not in pool order, over the pool as it is
C9_Witness ==
  /\ resp.status = 200
  /\ resp.used = MASTER_QUIZ_DATA
  /\ Len(MASTER_QUIZ_DATA) > K
  /\ \E i \in 1..Len(resp.ids) : resp.ids[i] # i
  /\ \A i \in 1..Len(MASTER_QUIZ_DATA) : MASTER_QUIZ_DATA[i].id.v = i

\* C10: once a refresh has succeeded the pool is not empty, so 503 is only
\* answered to requests that arrive before any refresh has succeeded.
C10_UnavailableOnlyBeforeFirstSuccess ==
  /\ poolRun # 0 => MASTER_QUIZ_DATA # <<>>
  /\ resp.status = 503 => ~resp.populated

\* the first run filled the pool, the two later runs failed, and the last
\* request was served
C10_Witness ==
  /\ poolRun = 1
  /\ started = MaxRuns
  /\ pending = {}
  /\ resp.status = 200
  /\ resp.populated
\* C11: once the startup run has settled, whatever its outcome, the process
\* lives and the interval timer is armed and stays armed; a tick can then fire
\* whenever no handler is running, and starts a new run; and a run that obtains
\* a usable result fills the pool, also when every earlier run failed.
C11_RefreshKeepsRunning ==
  /\ []((started >= 1 /\ 1 \notin pending) => (alive /\ listenPc = "armed"))
  /\ []((listenPc = "armed" /\ started < MaxRuns /\ handler.ep = "idle")
          => ENABLED IntervalTick)
  /\ [][/\ listenPc = "armed" => listenPc' = "armed"
        /\ IntervalTick => (started' = started + 1 /\ started' \in pending')
        /\ \A r \in pending, result \in ApiResults :
             (UsableResult(result) /\ FetchComplete(r, result))
               => (poolRun' = r /\ MASTER_QUIZ_DATA' # <<>>)]_vars

\* every run but the last has failed, and a tick has started the last one
C11_Witness ==
  /\ listenPc = "armed"
  /\ started = MaxRuns
  /\ pending = {MaxRuns}
  /\ poolRun = 0
  /\ MASTER_QUIZ_DATA = <<>>
\* C12: the 200 response of GET /api/quiz is the daily selection in its order
\* and of its length, and each object of it holds the properties of the
\* selected record unchanged, id, text, choices and explanation among them,
\* except correctAnswerIndex, which it does not hold.
C12_QuizBodyIsRedactedSelection ==
  (resp.ep = "quiz" /\ resp.status = 200) =>
    LET selection == DailySelection(resp.used, resp.at)
    IN /\ Len(resp.body) = Len(selection)
       /\ Ids(selection) = resp.ids
       /\ \A i \in 1..Len(selection) :
            /\ DOMAIN resp.body[i] = DOMAIN selection[i] \ {"correctAnswerIndex"}
            /\ \A f \in DOMAIN selection[i] \cap {"id", "text", "choices", "explanation"} :
                 resp.body[i][f] = selection[i][f]
            /\ \A f \in DOMAIN resp.body[i] : resp.body[i][f] = selection[i][f]

\* a response of K questions out of a larger pool, in another order than the
\* pool, each with its explanation and its choices
C12_Witness ==
  /\ resp.ep = "quiz"
  /\ resp.status = 200
  /\ Len(resp.used) > K
  /\ Len(resp.body) = K
  /\ resp.body[1].id # Num(1)
  /\ \A i \in 1..Len(resp.body) :
       {"id", "text", "choices", "explanation"} \subseteq DOMAIN resp.body[i]
\* the records of a sequence but the i-th
Without(questions, i) ==
  SubSeq(questions, 1, i - 1) \o SubSeq(questions, i + 1, Len(questions))

\* what a record is when its property f is missing or holds a string
Malformed(q, f) ==
  { [g \in DOMAIN q \ {f} |-> q[g]], With(q, f, Str(1)) }

\* C13: a request for the answer key that found the pool non-empty is answered
\* 200; a selected record whose correctAnswerIndex is missing or not a number
\* has no entry and the other selected records have theirs; and were the id or
\* the correctAnswerIndex of any one selected record missing or a string, the
\* mapping built would be the one built from the other selected records.
C13_MalformedRecordsAreSkipped ==
  (resp.ep = "answer-key" /\ resp.tested # <<>>) =>
    LET selection == DailySelection(resp.used, resp.at)
        bad == { i \in 1..Len(selection) :
                   ~TypeofNumber(Prop(selection[i], "correctAnswerIndex")) }
    IN /\ resp.status = 200
       /\ \A i \in bad : String(selection[i].id.v) \notin DOMAIN resp.body
       /\ \A i \in (1..Len(selection)) \ bad :
            /\ String(selection[i].id.v) \in DOMAIN resp.body
            /\ resp.body[String(selection[i].id.v)] = selection[i].correctAnswerIndex
       /\ \A i \in 1..Len(selection), f \in {"id", "correctAnswerIndex"} :
            \A m \in Malformed(selection[i], f) :
              reduceAnswerKey(SubSeq(selection, 1, i - 1) \o <<m>>
                                \o SubSeq(selection, i + 1, Len(selection)), 1, <<>>)
                = reduceAnswerKey(Without(selection, i), 1, <<>>)

\* an answer key over a selection holding a record whose index is a string, a
\* record without index, and a record with a numeric index
C13_Witness ==
  /\ resp.ep = "answer-key"
  /\ resp.status = 200
  /\ LET selection == DailySelection(resp.used, resp.at)
     IN /\ \E q \in Range(selection) : Prop(q, "correctAnswerIndex").t = "string"
        /\ \E q \in Range(selection) : Prop(q, "correctAnswerIndex").t = "undefined"
  /\ DOMAIN resp.body # {}
\* the data model of a question record, its correct-choice index read under
\* the property name index: choices is an array of at least 3 strings and the
\* index is an integer that is a valid index into it
SatisfiesDataModel(q, index) ==
  /\ "choices" \in DOMAIN q
  /\ q.choices.t = "array"
  /\ Len(q.choices.items) >= 3
  /\ \A c \in 1..Len(q.choices.items) : q.choices.items[c].t = "string"
  /\ index \in DOMAIN q
  /\ q[index].t = "number"
  /\ q[index].v \in 0..(Len(q.choices.items) - 1)

IndexNames == {"correctAnswerIndex", "correctChoiceIndex"}

\* C14 as stated: every record of the pool satisfies the data model, under
\* one name of the index or the other.
C14_EveryPoolRecordSatisfiesDataModel ==
  \A q \in Range(MASTER_QUIZ_DATA) :
    \E index \in IndexNames : SatisfiesDataModel(q, index)

\* C14: a run whose text parses to a non-empty array publishes it whatever
\* its elements are: the pool it leaves has one record for each element, in
\* order, and a record satisfies the data model exactly when the element it
\* comes from does.
C14_RefreshPublishesRecordsAsFetched ==
  [][\A r \in pending, result \in ApiResults :
       (UsableResult(result) /\ FetchComplete(r, result)) =>
         LET items == JSONparse(trim(StripFences(result.candidates[1].text))).value.items
         IN /\ Len(MASTER_QUIZ_DATA') = Len(items)
            /\ \A i \in 1..Len(items), index \in IndexNames :
                 SatisfiesDataModel(MASTER_QUIZ_DATA'[i], index)
                   <=> (items[i].t = "object" /\ SatisfiesDataModel(items[i].fields, index))]_vars

\* a published pool with a record that satisfies the data model, a record
\* without index, a record whose index is a string, and a record of two
\* choices whose index is no index into them
C14_Witness ==
  /\ poolRun # 0
  /\ \E q \in Range(MASTER_QUIZ_DATA) : SatisfiesDataModel(q, "correctAnswerIndex")
  /\ \E q \in Range(MASTER_QUIZ_DATA) : IndexNames \cap DOMAIN q = {}
  /\ \E q \in Range(MASTER_QUIZ_DATA) : Prop(q, "correctAnswerIndex").t = "string"
  /\ \E q \in Range(MASTER_QUIZ_DATA) :
       /\ {"choices", "correctAnswerIndex"} \subseteq DOMAIN q
       /\ Len(q.choices.items) = 2
       /\ q.correctAnswerIndex.v >= 2
\* C15: when the try block of a handler throws, in a request that found the
\* pool non-empty, the response is 500 with the fixed body of the endpoint,
\* which holds neither the name nor the message of the error; the pool is
\* what it was when the handler ends, the process lives and no handler is left
\* running, so that the next request is taken.
C15_HandlerFaultIsContained ==
  /\ [](resp.status = 500 =>
          /\ resp.tested # <<>>
          /\ resp.body =
               IF resp.ep = "quiz"
               THEN [errorCode |-> "SERVER_ERROR",
                     message |-> "Internal server error occurred during data retrieval."]
               ELSE [error |-> "Internal server error"]
          /\ \A f \in DOMAIN resp.body, error \in Errors :
               resp.body[f] \notin {error.name, error.message})
  /\ [](faulted => alive)
  /\ []((faulted /\ handler = Idle) => (ENABLED QuizCheck /\ ENABLED AnswerKeyCheck))
  /\ [][(handler.ep # "idle" /\ handler'.ep = "idle" /\ resp'.status = 500) =>
          /\ MASTER_QUIZ_DATA' = MASTER_QUIZ_DATA
          /\ MASTER_QUIZ_DATA # <<>>
          /\ resp'.ep = handler.ep
          /\ faulted'
          /\ alive']_vars

\* a request has been answered 200 from the pool after a handler threw
C15_Witness ==
  /\ faulted
  /\ resp.status = 200
  /\ resp.ep = "quiz"
  /\ resp.used = MASTER_QUIZ_DATA
\* C16 as stated: no run replaces the data of a run that was started after
\* it.
C16_OlderRunNeverOverwritesNewer == [][poolRun' >= poolRun]_vars

\* C16: a run that obtains a usable result publishes it when its response
\* arrives, whichever runs were started or have completed meanwhile: the pool
\* then holds the data of that run, so that of two overlapping runs that both
\* succeed the pool holds in the end the data of the one whose response
\* arrived last, be it the one started first.
C16_LastArrivalWins ==
  [][\A r \in pending, result \in ApiResults :
       (UsableResult(result) /\ FetchComplete(r, result)) =>
         /\ poolRun' = r
         /\ accepted' = JSONparse(trim(StripFences(result.candidates[1].text))).value.items
         /\ MASTER_QUIZ_DATA' = assignQuizIds(accepted')
         /\ overtaken' = (overtaken \/ poolRun > r)]_vars

\* the runs of two ticks overlapped (the startup run has settled before the
\* timer is armed) and both have completed; the one started later published
\* its data first, and the pool holds the data of the other
C16_Witness ==
  /\ overtaken
  /\ started = 3
  /\ pending = {}
  /\ poolRun = 2
\* the pool record behind the i-th question of the response the client kept
Received(i) == seen.used[seen.ids[i]]

\* C17: when a client has kept a 200 response of GET /api/quiz and the last
\* response is a 200 answer key of the same UTC date, every id of the answer
\* key is the id of a question the client received, and every question it
\* received whose correctAnswerIndex is a number has its id in the answer key
\* with that correctAnswerIndex.
C17_KeyMatchesQuizReceived ==
  (/\ seen.status = 200
   /\ resp.ep = "answer-key"
   /\ resp.status = 200
   /\ SameUTCDate(seen.at, resp.at)) =>
    /\ \A k \in DOMAIN resp.body : \E i \in 1..Len(seen.ids) : k = String(seen.ids[i])
    /\ \A i \in 1..Len(seen.ids) :
         TypeofNumber(Prop(Received(i), "correctAnswerIndex")) =>
           /\ String(seen.ids[i]) \in DOMAIN resp.body
           /\ resp.body[String(seen.ids[i])] = Received(i).correctAnswerIndex

\* the same, for an answer key built from the pool the quiz was selected from
C17_KeyMatchesQuizOfSamePool ==
  (seen.used = resp.used) => C17_KeyMatchesQuizReceived
====
